---- MODULE Spec2Model ----
(***************************************************************************)
(* Model of the blueprint overlay merge of timbertrees.py and of what     *)
(* main builds from the merged blueprints:                                 *)
(*   merge_into_spec              (src/timbertrees.py 438-469)   SpecFold  *)
(*   load_blueprint_jsons         (src/timbertrees.py 489-561)   Spec      *)
(*   load_template                (src/timbertrees.py 578-590)   SpecSawmill *)
(*   dict_group_by_id             (src/timbertrees.py 685-702)   SpecGroup *)
(*   add_backward_compatible_keys (src/timbertrees.py 1567-1576) SpecAlias *)
(*   main.ToolGroupKey, the sort  (src/timbertrees.py 1678-1689) SpecTool  *)
(*   load_templates_and_tools    (src/timbertrees.py 593-627)   SpecPool  *)
(*   main, the per-kind maps      (src/timbertrees.py 1672-1678) SpecRekey *)
(* and of the resolution of a serialized document (SpecResolve), which is  *)
(* not part of timbertrees.py and follows section 4.5 of the description.  *)
(*                                                                         *)
(* JSON values are tagged records.  A dict is the sequence of its          *)
(* <<key, value>> items in insertion order (a Python dict keeps insertion  *)
(* order; its equality ignores it, see PyEq).  A key is the sequence of    *)
(* its '#'-free pieces and '#' separators: "tags#append" is                *)
(* <<"tags", "#", "append">>, so that str.partition('#') is computed and   *)
(* not assumed.  An integer n is hi * 2^53 + lo, which lets the model hold *)
(* one integer that float() cannot represent.                              *)
(***************************************************************************)
EXTENDS Integers, Sequences, FiniteSets, TLC

VARIABLES
  all_paths,     \* load_blueprint_jsons: list of (i, path) found by the scan
  all_specs,     \* load_blueprint_jsons: name -> list of PartialBlueprint
  merged_specs,  \* load_blueprint_jsons: name -> merged Definition
  todo,          \* load_blueprint_jsons: what the loops of lines 551-552 have left
  pc,            \* position of load_blueprint_jsons
  folded,        \* history: the PartialBlueprints given to merge_into_spec, in order
  skipped,       \* history: the optional PartialBlueprints skipped (line 554-555)
  error,         \* the exception that ended load_blueprint_jsons, if any
  returned,      \* <<the list load_blueprint_jsons returned>>, <<>> before that
  template,      \* <<the dict load_template returned>>, <<>> before that
  spec,          \* merge_into_spec: the Definition folded into
  jsons,         \* history: the documents folded into spec, in order
  specs,         \* history: spec before the first fold and after each fold
  err,           \* the exception that ended the last merge_into_spec, if any
  goods,         \* add_backward_compatible_keys: the table d
  goods0,        \* history: the table before the last call
  calls,         \* history: the number of calls made on the table
  iterable,      \* dict_group_by_id: the records
  key_path,      \* dict_group_by_id: the pieces of key.split('.')
  groups,        \* <<the dict dict_group_by_id returned>>, <<>> before that
  raised,        \* the exception that ended dict_group_by_id, if any
  toolgroups_by_id,  \* main: lower-cased Id -> tool group
  toolgroups,    \* <<the tool groups sorted by ToolGroupKey>>, <<>> before that
  tg_raised,     \* the exception that ended the sort, if any
  faction_templates,  \* load_templates_and_tools: the paths of one batch
  templates,     \* debug -> the map templates[key] of the run with that debug
  consumed,      \* debug -> the number of results the loop has taken
  finished,      \* the calls of load_template the pool's workers have finished
  lt_raised,     \* debug -> the exception that ended the run, if any
  lt_pc,         \* debug -> position of the run
  document,      \* resolver: the root's components and each entry's references
  aux_pool,      \* resolver: the anchors still in the auxiliary pool
  resolving,     \* resolver: the entries being resolved, innermost last
  derefs,        \* history: anchor -> the times it was dereferenced
  rs_raised,     \* the exception that ended the resolution, if any
  rs_pc,         \* position of the resolution
  payloads,      \* the declarations' payloads as they are in memory now
  shared         \* field -> the declaration whose object the Definition holds

vars == <<all_paths, all_specs, merged_specs, todo, pc, folded, skipped, error,
          returned, template, spec, jsons, specs, err, goods, goods0, calls,
          iterable, key_path, groups, raised, toolgroups_by_id, toolgroups,
          tg_raised, faction_templates, templates, consumed, finished,
          lt_raised, lt_pc, document, aux_pool, resolving, derefs, rs_raised,
          rs_pc, payloads, shared>>

loadVars ==
  <<all_paths, all_specs, merged_specs, todo, pc, folded, skipped, error,
    returned, template>>
foldVars == <<spec, jsons, specs, err>>
aliasVars == <<goods, goods0, calls>>
groupVars == <<iterable, key_path, groups, raised>>
toolVars == <<toolgroups_by_id, toolgroups, tg_raised>>
poolVars ==
  <<faction_templates, templates, consumed, finished, lt_raised, lt_pc>>
resolveVars == <<document, aux_pool, resolving, derefs, rs_raised, rs_pc>>
shareVars == <<payloads, shared>>
moreVars == <<poolVars, resolveVars, shareVars>>
oldVars == <<loadVars, foldVars, aliasVars, groupVars, toolVars>>
restVars == <<aliasVars, groupVars, toolVars, moreVars>>

----------------------------------------------------------------------------
(* Bounds *)

MaxItems == 3
MaxFiles == 3
MaxGoods == 3
MaxCalls == 2
MaxRecords == 3
MaxGroups == 3
MaxPaths == 3
MaxAnchors == 2
MaxDepth == 3

----------------------------------------------------------------------------
(* Python values *)

NoneV == [t |-> "NoneType"]
IntV(n) == [t |-> "int", hi |-> 0, lo |-> n]
\* 2^53 + 1, the smallest positive integer that is not a double
BigIntV == [t |-> "int", hi |-> 1, lo |-> 1]
FloatV(n) == [t |-> "float", hi |-> 0, lo |-> n]
StrV(s) == [t |-> "str", s |-> s]
BoolV(b) == [t |-> "bool", b |-> b]
ListV(l) == [t |-> "list", l |-> l]
DictV(d) == [t |-> "dict", d |-> d]

IsNumber(v) == v.t \in {"int", "float", "bool"}

\* the mathematical value of a number, as <<hi, lo>>; True is 1 and False is 0
NumKey(v) ==
  IF v.t = "bool" THEN <<0, IF v.b THEN 1 ELSE 0>> ELSE <<v.hi, v.lo>>

\* float(v) of an int: exact below 2^53; in [2^53, 2^54) doubles are the even
\* integers and an odd one rounds to the neighbour with the even mantissa
PyFloat(v) ==
  IF v.hi = 0 \/ v.lo % 2 = 0
  THEN [t |-> "float", hi |-> v.hi, lo |-> v.lo]
  ELSE [t |-> "float", hi |-> v.hi,
        lo |-> IF ((v.lo - 1) \div 2) % 2 = 0 THEN v.lo - 1 ELSE v.lo + 1]

DictKeys(d) == {d[n][1] : n \in 1..Len(d)}
DictHas(d, k) == \E n \in 1..Len(d) : d[n][1] = k
DictIdx(d, k) == CHOOSE n \in 1..Len(d) : d[n][1] = k

\* Python ==
RECURSIVE PyEq(_, _)
PyEq(x, y) ==
  IF IsNumber(x) /\ IsNumber(y) THEN NumKey(x) = NumKey(y)
  ELSE IF x.t # y.t THEN FALSE
  ELSE IF x.t = "list"
    THEN /\ Len(x.l) = Len(y.l)
         /\ \A n \in 1..Len(x.l) : PyEq(x.l[n], y.l[n])
  ELSE IF x.t = "dict"
    THEN /\ DictKeys(x.d) = DictKeys(y.d)
         /\ \A n \in 1..Len(x.d) :
              PyEq(x.d[n][2], y.d[DictIdx(y.d, x.d[n][1])][2])
  ELSE x = y

\* spec.get(k, None): an absent key and a key holding null both give None
DictGet(d, k) == IF DictHas(d, k) THEN d[DictIdx(d, k)][2] ELSE NoneV

\* spec[k] = v: a present key keeps its position, a new key goes last
DictSet(d, k, v) ==
  IF DictHas(d, k) THEN [d EXCEPT ![DictIdx(d, k)] = <<k, v>>]
  ELSE Append(d, <<k, v>>)

\* x in i
ListIn(x, l) == \E n \in 1..Len(l) : PyEq(l[n], x)

\* mutant of ListRemove: del i[0] whatever x is
ListRemoveHead(l, x) == Tail(l)

\* mutant of ListRemove: the last element equal to x goes
ListRemoveLast(l, x) ==
  LET n == CHOOSE n \in 1..Len(l) :
             PyEq(l[n], x) /\ \A j \in (n + 1)..Len(l) : ~PyEq(l[j], x)
  IN SubSeq(l, 1, n - 1) \o SubSeq(l, n + 1, Len(l))

\* i.remove(x), x in i: the first element equal to x goes
ListRemove(l, x) ==
  LET n == CHOOSE n \in 1..Len(l) :
             PyEq(l[n], x) /\ \A j \in 1..(n - 1) : ~PyEq(l[j], x)
  IN SubSeq(l, 1, n - 1) \o SubSeq(l, n + 1, Len(l))

\* k.partition('#'): around the first '#'
HashPos(key) ==
  IF \E n \in 1..Len(key) : key[n] = "#"
  THEN CHOOSE n \in 1..Len(key) :
         key[n] = "#" /\ \A j \in 1..(n - 1) : key[j] # "#"
  ELSE 0
PartitionHead(key) ==
  IF HashPos(key) = 0 THEN key ELSE SubSeq(key, 1, HashPos(key) - 1)
PartitionTail(key) ==
  IF HashPos(key) = 0 THEN <<>> ELSE SubSeq(key, HashPos(key) + 1, Len(key))

----------------------------------------------------------------------------
(* merge_into_spec *)

NoErr == [msg |-> "", name |-> <<>>, k |-> <<>>]
\* AssertionError raised for field k of the Definition path name
AssertionError(msg, name, k) == [msg |-> msg, name |-> name, k |-> k]

\* mutant of RemoveEach: break, not continue, on an absent element
RECURSIVE RemoveEachBreak(_, _)
RemoveEachBreak(i, v) ==
  IF v = <<>> THEN i
  ELSE IF ~ListIn(Head(v), i) THEN i
  ELSE RemoveEachBreak(ListRemove(i, Head(v)), Tail(v))

\* lines 451-456: for x in v: skip with a warning when absent, else remove
RECURSIVE RemoveEach(_, _)
RemoveEach(i, v) ==
  IF v = <<>> THEN i
  ELSE IF ~ListIn(Head(v), i) THEN RemoveEach(i, Tail(v))
  ELSE RemoveEach(ListRemove(i, Head(v)), Tail(v))

\* mutant of ListExtend: the incoming list goes in front
ListExtendFront(i, v) == v \o i

\* line 449: i.extend(v)
ListExtend(i, v) == i \o v

\* mutant of IsPatch: the verb is not looked at
IsPatchAnyKey(i, m) == i.t = "list"

\* line 446: the patch-verb branch is taken for a list target and a verb
IsPatch(i, m) == i.t = "list" /\ m # <<>>

\* mutant of AssignField: no upcast, the int is kept as it came
AssignFieldNoUpcast(name, d, k, i, v) ==
  IF i.t = "NoneType" \/ i.t = v.t \/ (i.t = "float" /\ v.t = "int")
  THEN [spec |-> DictSet(d, k, v), err |-> NoErr]
  ELSE [spec |-> d, err |-> AssertionError("type", name, k)]

\* lines 464-469: the plain assignment with the float upcast and the type check
AssignField(name, d, k, i, v) ==
  IF i.t = "float" /\ v.t = "int" /\ ~PyEq(v, PyFloat(v))
  THEN [spec |-> d, err |-> AssertionError("type", name, k)]
  ELSE LET v2 == IF i.t = "float" /\ v.t = "int" THEN PyFloat(v) ELSE v
       IN IF i.t = "NoneType" \/ i.t = v2.t
          THEN [spec |-> DictSet(d, k, v2), err |-> NoErr]
          ELSE [spec |-> d, err |-> AssertionError("type", name, k)]

\* lines 443-469, the loop over the items of json; the first failed assertion
\* ends it and leaves what was folded before it
RECURSIVE merge_into_spec(_, _, _)
merge_into_spec(name, d, json) ==
  IF json = <<>> THEN [spec |-> d, err |-> NoErr]
  ELSE
    LET k == PartitionHead(Head(json)[1])
        m == PartitionTail(Head(json)[1])
        v == Head(json)[2]
        i == DictGet(d, k)
        one ==
          IF IsPatch(i, m) THEN
            IF v.t # "list"
            THEN [spec |-> d, err |-> AssertionError("value", name, k)]
            ELSE IF m = <<"append">>
            THEN [spec |-> DictSet(d, k, ListV(ListExtend(i.l, v.l))), err |-> NoErr]
            ELSE IF m = <<"remove">>
            THEN [spec |-> DictSet(d, k, ListV(RemoveEach(i.l, v.l))),
                  err |-> NoErr]
            ELSE [spec |-> d,
                  err |-> AssertionError("Unsupported mode", name, k)]
          ELSE IF i.t = "dict" THEN
            IF v.t # "dict"
            THEN [spec |-> d, err |-> AssertionError("value", name, k)]
            ELSE LET r == merge_into_spec(Append(name, k), i.d, v.d)
                 IN [spec |-> DictSet(d, k, DictV(r.spec)), err |-> r.err]
          ELSE AssignField(name, d, k, i, v)
    IN IF one.err # NoErr THEN one
       ELSE merge_into_spec(name, one.spec, Tail(json))

----------------------------------------------------------------------------
(* Folding documents into one Definition: merge_into_spec applied to an      *)
(* empty Definition and then to what the earlier folds left.                 *)

Tags == <<"tags">>
TagsAppend == <<"tags", "#", "append">>
TagsRemove == <<"tags", "#", "remove">>
TagsDelete == <<"tags", "#", "delete">>
KeyN == <<"n">>

StrList(l) == ListV([n \in 1..Len(l) |-> StrV(l[n])])

\* the items (key, value) a document is made of
FoldItems ==
  { <<Tags, StrList(<<"a">>)>>,
    <<Tags, StrList(<<"a", "b">>)>>,
    <<Tags, ListV(<<FloatV(1)>>)>>,
    <<Tags, StrV("a")>>,
    <<Tags, IntV(1)>>,
    <<Tags, FloatV(1)>>,
    <<Tags, BigIntV>>,
    <<Tags, NoneV>>,
    <<Tags, BoolV(TRUE)>>,
    <<Tags, DictV(<< <<KeyN, IntV(1)>> >>)>>,
    <<Tags, DictV(<< <<KeyN, FloatV(1)>> >>)>>,
    <<TagsAppend, StrList(<<"a">>)>>,
    <<TagsAppend, StrList(<<"b">>)>>,
    <<TagsAppend, StrV("a")>>,
    <<TagsRemove, StrList(<<"a">>)>>,
    <<TagsRemove, StrList(<<"b">>)>>,
    <<TagsRemove, StrList(<<"c", "a">>)>>,
    <<TagsRemove, ListV(<<IntV(1)>>)>>,
    <<TagsDelete, StrList(<<"a">>)>>,
    <<TagsDelete, DictV(<< <<KeyN, IntV(1)>> >>)>>,
    <<TagsDelete, IntV(1)>>,
    <<KeyN, IntV(1)>> }

\* a JSON object has each key once
IsDoc(json) ==
  \A a, b \in 1..Len(json) : json[a][1] = json[b][1] => a = b

\* the documents of at most n items
FoldDocs(n) ==
  {json \in UNION {[1..len -> FoldItems] : len \in 1..n} : IsDoc(json)}

RECURSIVE ItemCount(_)
ItemCount(docs) ==
  IF docs = <<>> THEN 0 ELSE Len(Head(docs)) + ItemCount(Tail(docs))

\* the name merge_into_spec is called with: the path of the Definition
RootName == << <<"foo">> >>

InitAliasIdle ==
  /\ goods = <<>>
  /\ goods0 = <<>>
  /\ calls = 0

InitGroupIdle ==
  /\ iterable = <<>>
  /\ key_path = <<>>
  /\ groups = <<>>
  /\ raised = ""

InitToolIdle ==
  /\ toolgroups_by_id = <<>>
  /\ toolgroups = <<>>
  /\ tg_raised = ""

InitPoolIdle ==
  /\ faction_templates = <<>>
  /\ templates = <<>>
  /\ consumed = <<>>
  /\ finished = {}
  /\ lt_raised = <<>>
  /\ lt_pc = <<>>

InitResolveIdle ==
  /\ document = <<>>
  /\ aux_pool = {}
  /\ resolving = <<>>
  /\ derefs = <<>>
  /\ rs_raised = ""
  /\ rs_pc = "idle"

InitShareIdle ==
  /\ payloads = <<>>
  /\ shared = <<>>

InitMoreIdle ==
  /\ InitPoolIdle
  /\ InitResolveIdle
  /\ InitShareIdle

InitLoadIdle ==
  /\ all_paths = <<>>
  /\ all_specs = <<>>
  /\ merged_specs = <<>>
  /\ todo = <<>>
  /\ pc = "idle"
  /\ folded = <<>>
  /\ skipped = {}
  /\ error = NoErr
  /\ returned = <<>>
  /\ template = <<>>

InitFold ==
  /\ spec = <<>>
  /\ jsons = <<>>
  /\ specs = << <<>> >>
  /\ err = NoErr
  /\ InitLoadIdle
  /\ InitAliasIdle
  /\ InitGroupIdle
  /\ InitToolIdle
  /\ InitMoreIdle

\* lines 443-469 as they act on objects: 'spec[k] = v' (line 469) makes the
\* field hold the list or map object of the declaration's own payload, and
\* i.extend, i.remove and the nested merge (lines 449, 456, 462) change the
\* object the field holds in place.  st.shared says which item of which
\* declaration a field's object is, st.payloads what the declarations'
\* payloads have become; json[n] is the item being folded, d the Definition
\* before it, dn the declaration's index.  The values inside a map of
\* FoldItems are numbers, which no later fold can change.
RECURSIVE ShareItems(_, _, _, _, _)
ShareItems(st, d, json, dn, n) ==
  IF n > Len(json) THEN st
  ELSE
    LET k == PartitionHead(json[n][1])
        m == PartitionTail(json[n][1])
        v == json[n][2]
        i == DictGet(d, k)
        one == merge_into_spec(RootName, d, <<json[n]>>)
        ref == st.shared[DictIdx(st.shared, k)][2]
        st1 ==
          IF IsPatch(i, m) \/ i.t = "dict"
          THEN IF DictHas(st.shared, k)
               THEN [st EXCEPT !.payloads[ref[1]][ref[2]][2] =
                                  DictGet(one.spec, k)]
               ELSE st
          ELSE IF one.err # NoErr THEN st
          ELSE IF v.t \in {"list", "dict"}
          THEN [st EXCEPT !.shared = DictSet(@, k, <<dn, n>>)]
          ELSE [st EXCEPT !.shared =
                            SelectSeq(@, LAMBDA e : e[1] # k)]
    IN IF one.err # NoErr THEN st1
       ELSE ShareItems(st1, one.spec, json, dn, n + 1)

\* one call merge_into_spec(name, spec, json.items())
Fold(json) ==
  /\ err = NoErr
  /\ LET r == merge_into_spec(RootName, spec, json)
         st == ShareItems([payloads |-> Append(payloads, json),
                           shared |-> shared],
                          spec, json, Len(jsons) + 1, 1)
     IN /\ spec' = r.spec
        /\ err' = r.err
        /\ specs' = Append(specs, r.spec)
        /\ payloads' = st.payloads
        /\ shared' = st.shared
  /\ jsons' = Append(jsons, json)
  /\ UNCHANGED <<loadVars, aliasVars, groupVars, toolVars, poolVars,
                 resolveVars>>

NextFold ==
  \E json \in FoldDocs(MaxItems - ItemCount(jsons)) : Fold(json)

SpecFold == InitFold /\ [][NextFold]_vars

----------------------------------------------------------------------------
(* load_blueprint_jsons, called without an upgrade_specs callback            *)
(* (load_template, and load_blueprints of every kind but tools and groups).  *)

\* directories: the base install first (i = 0), then the mods in load order
directories == <<"base", "mod">>

\* file names without the last suffix (path.stem), as their '.'-free pieces
Stems ==
  { <<"Building", "Foo", "blueprint">>,
    <<"Building", "foo", "optional", "blueprint">>,
    <<"Building", "bar", "blueprint">>,
    <<"Building", "bar", "optional", "blueprint">> }

\* what the files hold
FileDocs ==
  { << <<Tags, StrList(<<"a">>)>> >>,
    << <<TagsAppend, StrList(<<"b">>)>> >>,
    << <<KeyN, IntV(1)>>, <<Tags, StrV("a")>> >> }

\* a file found under directories[i + 1]
ScanFiles ==
  [i : 0..(Len(directories) - 1), stem : Stems, doc : FileDocs]

\* lines 496-522: the directories are scanned in order and each glob result is
\* appended, so i never decreases along all_paths; the order of the files of
\* one directory is the file system's
IsScanOrder(paths) ==
  \A a, b \in 1..Len(paths) : a < b => paths[a].i <= paths[b].i

\* the lists the scan can produce
ScanResults ==
  {paths \in UNION {[1..len -> ScanFiles] : len \in 0..MaxFiles} :
     IsScanOrder(paths)}

\* the strings of the model that have an upper-case letter, and what
\* str.lower() makes of them
Lowered ==
  [Building |-> "building", Foo |-> "foo", Sawmill |-> "sawmill",
   Log |-> "log", LOG |-> "log", Plank |-> "plank", PLANK |-> "plank",
   Gear |-> "gear", Water |-> "water", Wood |-> "wood", Timber |-> "timber",
   A |-> "a", B |-> "b", C |-> "c", D |-> "d", Z |-> "z"]

\* str.lower() of a piece
Lower(piece) == IF piece \in DOMAIN Lowered THEN Lowered[piece] ELSE piece

LowerStem(stem) == [n \in 1..Len(stem) |-> Lower(stem[n])]

\* line 528: p.stem.lower().partition('.')
BlueprintName(stem) == LowerStem(stem)[1]
RawName(stem) == Tail(LowerStem(stem))

\* line 535: name.endswith('.optional.blueprint')
IsOptionalName(name) ==
  /\ Len(name) >= 3
  /\ name[Len(name) - 1] = "optional"
  /\ name[Len(name)] = "blueprint"

\* line 536: name.replace('.optional', '')
RECURSIVE DropOptional(_)
DropOptional(rest) ==
  IF rest = <<>> THEN <<>>
  ELSE IF Head(rest) = "optional" THEN DropOptional(Tail(rest))
  ELSE <<Head(rest)>> \o DropOptional(Tail(rest))
SpecName(name) ==
  IF name = <<>> THEN <<>> ELSE <<Head(name)>> \o DropOptional(Tail(name))

\* line 546: PartialBlueprint(p, optional, doc); the path is the position of
\* the file in all_paths
PartialBlueprint(n, paths) ==
  [path |-> n,
   optional |-> IsOptionalName(RawName(paths[n].stem)),
   specification |-> paths[n].doc]

\* lines 525-546: all_specs.setdefault(name, []).append(...) for each path
RECURSIVE LoadSpecs(_, _, _)
LoadSpecs(paths, n, m) ==
  IF n > Len(paths) THEN m
  ELSE LET name == SpecName(RawName(paths[n].stem))
           l == IF DictHas(m, name) THEN m[DictIdx(m, name)][2] ELSE <<>>
       IN LoadSpecs(paths, n + 1,
                    DictSet(m, name, Append(l, PartialBlueprint(n, paths))))

IsBase(pb) == ~pb.optional
IsOptional(pb) == pb.optional

\* mutant of SortedByOptional: the list is taken as it arrived
Unsorted(l) == l

\* line 552: sorted(l, key=lambda i: (i.optional)), a stable sort
SortedByOptional(l) == SelectSeq(l, IsBase) \o SelectSeq(l, IsOptional)

\* lines 551-552: the (name, PartialBlueprint) pairs in the order the two
\* loops visit them
RECURSIVE MergeOrder(_)
MergeOrder(m) ==
  IF m = <<>> THEN <<>>
  ELSE LET name == Head(m)[1]
           l == SortedByOptional(Head(m)[2])
       IN [n \in 1..Len(l) |-> <<name, l[n]>>] \o MergeOrder(Tail(m))

InitFoldIdle ==
  /\ spec = <<>>
  /\ jsons = <<>>
  /\ specs = << <<>> >>
  /\ err = NoErr

Init ==
  /\ all_paths = <<>>
  /\ all_specs = <<>>
  /\ merged_specs = <<>>
  /\ todo = <<>>
  /\ pc = "scan"
  /\ folded = <<>>
  /\ skipped = {}
  /\ error = NoErr
  /\ returned = <<>>
  /\ template = <<>>
  /\ InitFoldIdle
  /\ InitAliasIdle
  /\ InitGroupIdle
  /\ InitToolIdle
  /\ InitMoreIdle

\* lines 496-523: the scan, and the assertion that it found something
Scan ==
  /\ pc = "scan"
  /\ \E paths \in ScanResults :
       /\ all_paths' = paths
       /\ IF paths = <<>>
          THEN /\ pc' = "failed"
               /\ error' = AssertionError("No blueprints found", <<>>, <<>>)
          ELSE /\ pc' = "load"
               /\ error' = error
  /\ UNCHANGED <<all_specs, merged_specs, todo, folded, skipped, returned,
                 template, foldVars, restVars>>

\* lines 525-546: every file is read into all_specs; the assertion of lines
\* 530-534 on the file's first piece
Load ==
  /\ pc = "load"
  /\ IF \A n \in 1..Len(all_paths) :
          BlueprintName(all_paths[n].stem) \in {"building", "buildings"}
     THEN /\ all_specs' = LoadSpecs(all_paths, 1, <<>>)
          /\ todo' = MergeOrder(all_specs')
          /\ pc' = "merge"
          /\ error' = error
     ELSE /\ pc' = "failed"
          /\ error' = AssertionError("blueprint_name", <<>>, <<>>)
          /\ UNCHANGED <<all_specs, todo>>
  /\ UNCHANGED <<all_paths, merged_specs, folded, skipped, returned, template,
                 foldVars, restVars>>

\* dict.values(), in insertion order
DictValues(d) == [n \in 1..Len(d) |-> d[n][2]]

\* mutant of SkipOptional: an optional PartialBlueprint is folded like any other
SkipNever(pb, name, merged) == FALSE

\* lines 553-555: an optional PartialBlueprint is skipped while the name has
\* no Definition
SkipOptional(pb, name, merged) == pb.optional /\ ~DictHas(merged, name)

\* mutant of SetDefault: a new Definition starts with an Id, the slug
SetDefaultWithId(merged, name) ==
  IF DictHas(merged, name) THEN merged[DictIdx(merged, name)][2]
  ELSE << <<<<"Id">>, StrV("sawmill")>> >>

\* line 558: merged_specs.setdefault(name, dict())
SetDefault(merged, name) ==
  IF DictHas(merged, name) THEN merged[DictIdx(merged, name)][2] ELSE <<>>

\* mutant of MergeStep: the exception of a fold is recorded and the loop
\* goes on
MergeStepIgnoreError ==
  /\ pc = "merge"
  /\ todo # <<>>
  /\ LET name == Head(todo)[1]
         pb == Head(todo)[2]
     IN IF SkipOptional(pb, name, merged_specs)
        THEN /\ skipped' = skipped \cup {pb.path}
             /\ UNCHANGED <<merged_specs, folded, error>>
        ELSE LET r == merge_into_spec(<<name>>, SetDefault(merged_specs, name),
                                      pb.specification)
             IN /\ merged_specs' = DictSet(merged_specs, name, r.spec)
                /\ folded' = Append(folded, pb.path)
                /\ error' = IF r.err = NoErr THEN error ELSE r.err
                /\ skipped' = skipped
  /\ todo' = Tail(todo)
  /\ UNCHANGED <<pc, all_paths, all_specs, returned, template, foldVars, restVars>>

\* lines 553-559: one PartialBlueprint of the inner loop
MergeStep ==
  /\ pc = "merge"
  /\ todo # <<>>
  /\ LET name == Head(todo)[1]
         pb == Head(todo)[2]
     IN IF SkipOptional(pb, name, merged_specs)
        THEN /\ skipped' = skipped \cup {pb.path}
             /\ todo' = Tail(todo)
             /\ UNCHANGED <<merged_specs, folded, pc, error>>
        ELSE LET r == merge_into_spec(<<name>>, SetDefault(merged_specs, name),
                                      pb.specification)
             IN /\ merged_specs' = DictSet(merged_specs, name, r.spec)
                /\ folded' = Append(folded, pb.path)
                /\ error' = r.err
                /\ IF r.err = NoErr
                   THEN /\ todo' = Tail(todo)
                        /\ pc' = pc
                   ELSE /\ todo' = todo
                        /\ pc' = "failed"
                /\ skipped' = skipped
  /\ UNCHANGED <<all_paths, all_specs, returned, template, foldVars, restVars>>

\* line 561: return [s for s in merged_specs.values()]
Return ==
  /\ pc = "merge"
  /\ todo = <<>>
  /\ pc' = "done"
  /\ returned' = <<DictValues(merged_specs)>>
  /\ UNCHANGED <<all_paths, all_specs, merged_specs, todo, folded, skipped,
                 error, template, foldVars, restVars>>

Next == Scan \/ Load \/ MergeStep \/ Return

Spec == Init /\ [][Next]_vars

----------------------------------------------------------------------------
(* The declarations of a sawmill, and load_template (lines 578-590) *)

BuildingCost == <<"BuildingCost">>
BuildingCostAppend == <<"BuildingCost", "#", "append">>
BuildingCostRemove == <<"BuildingCost", "#", "remove">>
ScienceCost == <<"ScienceCost">>
Id == <<"Id">>
Amount == <<"Amount">>

\* {"Id": "Log", "Amount": 5}
Log5 == DictV(<< <<Id, StrV("Log")>>, <<Amount, IntV(5)>> >>)

\* what the sawmill files hold
SawmillBase ==
  << <<BuildingCostAppend, ListV(<<Log5>>)>>, <<ScienceCost, IntV(0)>> >>
SawmillOverlay1 == << <<ScienceCost, IntV(10)>> >>
SawmillOverlay2 == << <<BuildingCostRemove, ListV(<<Log5>>)>> >>
SawmillWithId == << <<Id, StrV("Sawmill")>> >>
SawmillDocs == {SawmillBase, SawmillOverlay1, SawmillOverlay2, SawmillWithId}

\* load_template: the file named file_path + '.json', as path.stem
TemplateStem == <<"Building", "Sawmill", "blueprint">>
SawmillStems ==
  {TemplateStem, <<"Building", "Sawmill", "optional", "blueprint">>}

SawmillFiles ==
  [i : 0..(Len(directories) - 1), stem : SawmillStems, doc : SawmillDocs]

SawmillScanResults ==
  {paths \in UNION {[1..len -> SawmillFiles] : len \in 0..MaxFiles} :
     IsScanOrder(paths)}

\* lines 496-523 over the sawmill files
ScanSawmill ==
  /\ pc = "scan"
  /\ \E paths \in SawmillScanResults :
       /\ all_paths' = paths
       /\ IF paths = <<>>
          THEN /\ pc' = "failed"
               /\ error' = AssertionError("No blueprints found", <<>>, <<>>)
          ELSE /\ pc' = "load"
               /\ error' = error
  /\ UNCHANGED <<all_specs, merged_specs, todo, folded, skipped, returned,
                 template, foldVars, restVars>>

\* line 582: blueprint = pathlib.PurePath(file_path).stem, the file name
\* without '.blueprint', in the case it is written in
TemplateBlueprint == "Building.Sawmill"

TypeError(msg) == [msg |-> msg, name |-> <<>>, k |-> <<>>]

\* line 590: dict(Id=blueprint, **templates[0]); a keyword given twice is a
\* TypeError
WithId(blueprint, tpl) ==
  IF DictHas(tpl, Id)
  THEN [dict |-> <<>>,
        err |-> TypeError("dict() got multiple values for keyword argument 'Id'")]
  ELSE [dict |-> << <<Id, StrV(blueprint)>> >> \o tpl, err |-> NoErr]

\* lines 582-590 after load_blueprint_jsons has returned: the call was
\* load_template's when every file found is named file_path + '.json'
LoadTemplate ==
  /\ pc = "done"
  /\ \A n \in 1..Len(all_paths) : all_paths[n].stem = TemplateStem
  /\ IF Len(returned[1]) # 1
     THEN /\ pc' = "failed"
          /\ error' = AssertionError("len(templates) == 1", <<>>, <<>>)
          /\ template' = template
     ELSE LET r == WithId(TemplateBlueprint, returned[1][1])
          IN IF r.err # NoErr
             THEN /\ pc' = "failed"
                  /\ error' = r.err
                  /\ template' = template
             ELSE /\ pc' = "template"
                  /\ error' = error
                  /\ template' = <<r.dict>>
  /\ UNCHANGED <<all_paths, all_specs, merged_specs, todo, folded, skipped,
                 returned, foldVars, restVars>>

NextSawmill == ScanSawmill \/ Load \/ MergeStep \/ Return \/ LoadTemplate

SpecSawmill == Init /\ [][NextSawmill]_vars

----------------------------------------------------------------------------
(* add_backward_compatible_keys (lines 1567-1576) *)

\* A blueprint is the sequence of its <<spec name, spec>> items; a spec is a
\* record of its Id and its BackwardCompatibleIds, where <<>> stands for an
\* absent key as well (spec.get('BackwardCompatibleIds', [])).
GoodIds == <<"Log", "Plank", "Gear", "Water">>

BackwardCompatibleIdLists ==
  { <<>>, <<"LOG">>, <<"Wood">>, <<"wood", "PLANK">>, <<"Timber", "Wood">> }

GoodBlueprint(id, ids) ==
  << <<"GoodSpec", [Id |-> id, BackwardCompatibleIds |-> ids]>> >>

\* the lists load_blueprints(directories, GoodBlueprint) can return
GoodLists ==
  UNION {{[n \in 1..len |-> GoodBlueprint(GoodIds[n], ids[n])] :
            ids \in [1..len -> BackwardCompatibleIdLists]} :
         len \in 1..MaxGoods}

\* line 1674: {b['GoodSpec']['Id'].lower(): b for b in ...}
RECURSIVE ById(_, _)
ById(d, bs) ==
  IF bs = <<>> THEN d
  ELSE ById(DictSet(d, Lower(Head(bs)[1][2].Id), Head(bs)), Tail(bs))

\* mutant of AddIds: an id is registered for a copy of the blueprint that
\* has the id as its Id
RECURSIVE AddIdsRenamed(_, _, _)
AddIdsRenamed(d, ids, blueprint) ==
  IF ids = <<>> THEN d
  ELSE IF DictHas(d, Lower(Head(ids)))
    THEN AddIdsRenamed(d, Tail(ids), blueprint)
  ELSE AddIdsRenamed(
         DictSet(d, Lower(Head(ids)),
                 [n \in 1..Len(blueprint) |->
                    <<blueprint[n][1],
                      [blueprint[n][2] EXCEPT !.Id = Head(ids)]>>]),
         Tail(ids), blueprint)

\* mutant of AddIds: the id is registered whether it is in the table or not
RECURSIVE AddIdsOverwrite(_, _, _)
AddIdsOverwrite(d, ids, blueprint) ==
  IF ids = <<>> THEN d
  ELSE AddIdsOverwrite(DictSet(d, Lower(Head(ids)), blueprint), Tail(ids),
                       blueprint)

\* mutant of AddIds: the loop over the ids ends after the first id added
RECURSIVE AddIdsFirstOnly(_, _, _)
AddIdsFirstOnly(d, ids, blueprint) ==
  IF ids = <<>> THEN d
  ELSE IF DictHas(d, Lower(Head(ids)))
    THEN AddIdsFirstOnly(d, Tail(ids), blueprint)
  ELSE DictSet(d, Lower(Head(ids)), blueprint)

\* lines 1570-1576: the BackwardCompatibleIds of one spec, in order
RECURSIVE AddIds(_, _, _)
AddIds(d, ids, blueprint) ==
  IF ids = <<>> THEN d
  ELSE IF DictHas(d, Lower(Head(ids)))
    THEN AddIds(d, Tail(ids), blueprint)
  ELSE AddIds(DictSet(d, Lower(Head(ids)), blueprint), Tail(ids), blueprint)

\* lines 1569-1576: the specs of one blueprint, in order
RECURSIVE AddSpecs(_, _, _)
AddSpecs(d, rest, blueprint) ==
  IF rest = <<>> THEN d
  ELSE AddSpecs(AddIds(d, Head(rest)[2].BackwardCompatibleIds, blueprint),
                Tail(rest), blueprint)

\* mutant of AddBlueprints: the blueprints are visited last to first
RECURSIVE AddBlueprintsReversed(_, _)
AddBlueprintsReversed(d, values) ==
  IF values = <<>> THEN d
  ELSE LET last == values[Len(values)]
       IN AddBlueprintsReversed(AddSpecs(d, last, last),
                                SubSeq(values, 1, Len(values) - 1))

\* lines 1568-1576: the blueprints of list(d.values()), in order
RECURSIVE AddBlueprints(_, _)
AddBlueprints(d, values) ==
  IF values = <<>> THEN d
  ELSE AddBlueprints(AddSpecs(d, Head(values), Head(values)), Tail(values))

add_backward_compatible_keys(d) == AddBlueprints(d, DictValues(d))

InitAlias ==
  /\ \E bs \in GoodLists : goods = ById(<<>>, bs)
  /\ goods0 = goods
  /\ calls = 0
  /\ InitLoadIdle
  /\ InitFoldIdle
  /\ InitGroupIdle
  /\ InitToolIdle
  /\ InitMoreIdle

\* line 1709: add_backward_compatible_keys(goods)
AddKeys ==
  /\ calls < MaxCalls
  /\ goods0' = goods
  /\ goods' = add_backward_compatible_keys(goods)
  /\ calls' = calls + 1
  /\ UNCHANGED <<loadVars, foldVars, groupVars, toolVars, moreVars>>

NextAlias == AddKeys

SpecAlias == InitAlias /\ [][NextAlias]_vars

----------------------------------------------------------------------------
(* dict_group_by_id (lines 685-702) *)

\* A record is a dict whose keys are strings.
\* key.split('.')
KeyPaths == { <<"GroupId">>, <<"ToolSpec", "GroupId">> }

ToolSpecOf(v) == DictV(<< <<"ToolSpec", v>> >>)
GroupIdOf(v) == DictV(<< <<"GroupId", v>> >>)

Records ==
  { ToolSpecOf(GroupIdOf(StrV("A"))),
    ToolSpecOf(GroupIdOf(StrList(<<"a", "B">>))),
    ToolSpecOf(GroupIdOf(StrList(<<"a", "A">>))),
    ToolSpecOf(GroupIdOf(ListV(<<>>))),
    ToolSpecOf(GroupIdOf(NoneV)),
    ToolSpecOf(NoneV),
    ToolSpecOf(DictV(<<>>)),
    GroupIdOf(StrV("b")),
    DictV(<<>>) }

\* key_part in group, for a str group: the strings of Records and KeyPaths
\* are no proper substrings of one another
Contains(s, part) == s = part

\* lines 689-693: the group a record has after the walk along the key parts;
\* 'in' raises TypeError on a group that is no container, and so does the
\* subscript of a str or list group with a str
RECURSIVE Walk(_, _)
Walk(group, parts) ==
  IF parts = <<>> THEN [group |-> group, err |-> ""]
  ELSE IF group.t = "dict"
    THEN IF ~DictHas(group.d, Head(parts))
         THEN [group |-> StrV(""), err |-> ""]
         ELSE Walk(group.d[DictIdx(group.d, Head(parts))][2], Tail(parts))
  ELSE IF group.t = "list"
    THEN IF ~ListIn(StrV(Head(parts)), group.l)
         THEN [group |-> StrV(""), err |-> ""]
         ELSE [group |-> group, err |-> "TypeError"]
  ELSE IF group.t = "str"
    THEN IF ~Contains(group.s, Head(parts))
         THEN [group |-> StrV(""), err |-> ""]
         ELSE [group |-> group, err |-> "TypeError"]
  ELSE [group |-> group, err |-> "TypeError"]

\* groups.setdefault(item, []).append(value)
SetDefaultAppend(gs, k, value) ==
  IF DictHas(gs, k)
  THEN [gs EXCEPT ![DictIdx(gs, k)] = <<k, Append(@[2], value)>>]
  ELSE Append(gs, <<k, <<value>>>>)

\* mutant of AppendToItems: the record goes to the bucket of the first item
\* only
RECURSIVE AppendToFirstItem(_, _, _)
AppendToFirstItem(gs, items, value) ==
  IF items = <<>> THEN [groups |-> gs, err |-> ""]
  ELSE IF Head(items).t # "str" THEN [groups |-> gs, err |-> "AttributeError"]
  ELSE [groups |-> SetDefaultAppend(gs, Lower(Head(items).s), value),
        err |-> ""]

\* lines 695-697: the items of a list group, in order; .lower() of what is
\* no str raises AttributeError
RECURSIVE AppendToItems(_, _, _)
AppendToItems(gs, items, value) ==
  IF items = <<>> THEN [groups |-> gs, err |-> ""]
  ELSE IF Head(items).t # "str" THEN [groups |-> gs, err |-> "AttributeError"]
  ELSE AppendToItems(SetDefaultAppend(gs, Lower(Head(items).s), value),
                     Tail(items), value)

\* lines 694-700
AppendToGroups(gs, group, value) ==
  IF group.t = "list" THEN AppendToItems(gs, group.l, value)
  ELSE IF group.t # "str" THEN [groups |-> gs, err |-> "AttributeError"]
  ELSE [groups |-> SetDefaultAppend(gs, Lower(group.s), value), err |-> ""]

\* mutant of GroupValue: a record that lacks a key part is left out
GroupValueDropAbsent(gs, value, parts) ==
  LET w == Walk(value, parts)
  IN IF w.err # "" THEN [groups |-> gs, err |-> w.err]
     ELSE IF w.group = StrV("") THEN [groups |-> gs, err |-> ""]
     ELSE AppendToGroups(gs, w.group, value)

\* lines 688-700: one value of the iterable
GroupValue(gs, value, parts) ==
  LET w == Walk(value, parts)
  IN IF w.err # "" THEN [groups |-> gs, err |-> w.err]
     ELSE AppendToGroups(gs, w.group, value)

\* lines 686-701
RECURSIVE GroupValues(_, _, _)
GroupValues(gs, rest, parts) ==
  IF rest = <<>> THEN [groups |-> gs, err |-> ""]
  ELSE LET r == GroupValue(gs, Head(rest), parts)
       IN IF r.err # "" THEN r
          ELSE GroupValues(r.groups, Tail(rest), parts)

dict_group_by_id(values, parts) == GroupValues(<<>>, values, parts)

InitGroup ==
  /\ iterable \in UNION {[1..len -> Records] : len \in 0..MaxRecords}
  /\ key_path \in KeyPaths
  /\ groups = <<>>
  /\ raised = ""
  /\ InitLoadIdle
  /\ InitFoldIdle
  /\ InitAliasIdle
  /\ InitToolIdle
  /\ InitMoreIdle

\* one call dict_group_by_id(iterable, key)
Group ==
  /\ groups = <<>>
  /\ raised = ""
  /\ LET r == dict_group_by_id(iterable, key_path)
     IN /\ raised' = r.err
        /\ groups' = IF r.err = "" THEN <<r.groups>> ELSE <<>>
  /\ UNCHANGED <<iterable, key_path, loadVars, foldVars, aliasVars, toolVars,
                 moreVars>>

NextGroup == Group

SpecGroup == InitGroup /\ [][NextGroup]_vars

----------------------------------------------------------------------------
(* main: toolgroups_by_id, ToolGroupKey and the sort (lines 1678-1689) *)

\* A tool group is a record of the Id, the Order and, each as <<>> when the
\* key is absent, the Layout of its BlockObjectToolGroupSpec and the
\* ParentIds of its ParentToolGroupSpec.
ToolGroupIds == <<"A", "B", "C", "D">>

\* Layout and Order of a tool group
LayoutOrders ==
  { [Layout |-> <<>>, Order |-> 1],
    [Layout |-> <<>>, Order |-> 2],
    [Layout |-> <<"Blue">>, Order |-> 1] }

\* ParentIds of a tool group among len: none, one of the groups, or an Id of
\* no group
ParentIdLists(len) == {<<>>, <<"Z">>} \cup {<<ToolGroupIds[n]>> : n \in 1..len}

ToolGroup(id, lo, parents) ==
  [Id |-> id, Layout |-> lo.Layout, Order |-> lo.Order, ParentIds |-> parents]

\* a list load_blueprints(directories, BlockObjectToolGroupBlueprint, ...)
\* can return: len tool groups with the layouts and orders lo and the
\* parents ps
ToolGroupList(len, lo, ps) ==
  [n \in 1..len |-> ToolGroup(ToolGroupIds[n], lo[n], ps[n])]

\* line 1678: {b['BlockObjectToolGroupSpec']['Id'].lower(): b for b in ...}
RECURSIVE ToolGroupsById(_, _)
ToolGroupsById(d, bs) ==
  IF bs = <<>> THEN d
  ELSE ToolGroupsById(DictSet(d, Lower(Head(bs).Id), Head(bs)), Tail(bs))

\* line 1682: (b[...].get('Layout', 'Default'), b[...]['Order'])
LocalKey(b) ==
  << StrV(IF b.Layout = <<>> THEN "Default" ELSE b.Layout[1]), IntV(b.Order) >>

\* mutant of JoinKey: the local key goes in front of the parent's key
JoinKeyLocalFirst(parent_key, k) == k \o parent_key

\* line 1686: ToolGroupKey(parent) + k
JoinKey(parent_key, k) == parent_key \o k

\* mutant of ToolGroupKeyAt: a parent that is no group counts as no parent
RECURSIVE ToolGroupKeyAtNoParent(_, _, _)
ToolGroupKeyAtNoParent(by_id, b, depth) ==
  IF b.ParentIds = <<>> THEN [key |-> LocalKey(b), err |-> ""]
  ELSE IF Len(b.ParentIds) # 1 THEN [key |-> <<>>, err |-> "AssertionError"]
  ELSE IF ~DictHas(by_id, Lower(b.ParentIds[1]))
    THEN [key |-> LocalKey(b), err |-> ""]
  ELSE IF depth >= Len(by_id) THEN [key |-> <<>>, err |-> "RecursionError"]
  ELSE LET p == ToolGroupKeyAtNoParent(
                  by_id, by_id[DictIdx(by_id, Lower(b.ParentIds[1]))][2],
                  depth + 1)
       IN IF p.err # "" THEN p
          ELSE [key |-> JoinKey(p.key, LocalKey(b)), err |-> ""]

\* mutant of ToolGroupKeyAt: a chain that goes round a cycle is cut where it
\* comes back
RECURSIVE ToolGroupKeyAtCut(_, _, _)
ToolGroupKeyAtCut(by_id, b, depth) ==
  IF b.ParentIds = <<>> THEN [key |-> LocalKey(b), err |-> ""]
  ELSE IF Len(b.ParentIds) # 1 THEN [key |-> <<>>, err |-> "AssertionError"]
  ELSE IF ~DictHas(by_id, Lower(b.ParentIds[1]))
    THEN [key |-> <<>>, err |-> "KeyError"]
  ELSE IF depth >= Len(by_id) THEN [key |-> LocalKey(b), err |-> ""]
  ELSE LET p == ToolGroupKeyAtCut(
                  by_id, by_id[DictIdx(by_id, Lower(b.ParentIds[1]))][2],
                  depth + 1)
       IN IF p.err # "" THEN p
          ELSE [key |-> JoinKey(p.key, LocalKey(b)), err |-> ""]

\* lines 1679-1688, called for a member b of by_id.  A chain of more parents
\* than by_id has groups goes round a cycle and ends in Python's
\* RecursionError.
RECURSIVE ToolGroupKeyAt(_, _, _)
ToolGroupKeyAt(by_id, b, depth) ==
  IF b.ParentIds = <<>> THEN [key |-> LocalKey(b), err |-> ""]
  ELSE IF Len(b.ParentIds) # 1 THEN [key |-> <<>>, err |-> "AssertionError"]
  ELSE IF ~DictHas(by_id, Lower(b.ParentIds[1]))
    THEN [key |-> <<>>, err |-> "KeyError"]
  ELSE IF depth >= Len(by_id) THEN [key |-> <<>>, err |-> "RecursionError"]
  ELSE LET p == ToolGroupKeyAt(
                  by_id, by_id[DictIdx(by_id, Lower(b.ParentIds[1]))][2],
                  depth + 1)
       IN IF p.err # "" THEN p
          ELSE [key |-> JoinKey(p.key, LocalKey(b)), err |-> ""]

ToolGroupKey(by_id, b) == ToolGroupKeyAt(by_id, b, 0)

\* the layouts are the strings Blue and Default: Python's str <
StrLess(a, b) == a = "Blue" /\ b = "Default"

\* Python's < of two items of a key: both are str or both are int
ItemLess(x, y) ==
  IF x.t = "str" /\ y.t = "str" THEN StrLess(x.s, y.s)
  ELSE IF x.t = "int" /\ y.t = "int" THEN x.lo < y.lo
  ELSE FALSE

\* Python's < of two tuples: the first item that differs decides, and a
\* proper prefix is smaller
RECURSIVE TupleLess(_, _)
TupleLess(a, b) ==
  IF b = <<>> THEN FALSE
  ELSE IF a = <<>> THEN TRUE
  ELSE IF PyEq(Head(a), Head(b)) THEN TupleLess(Tail(a), Tail(b))
  ELSE ItemLess(Head(a), Head(b))

\* sorted() is stable: x goes after what is not greater than it
RECURSIVE InsertByKey(_, _)
InsertByKey(sorted_part, x) ==
  IF sorted_part = <<>> THEN <<x>>
  ELSE IF TupleLess(x.key, Head(sorted_part).key) THEN <<x>> \o sorted_part
  ELSE <<Head(sorted_part)>> \o InsertByKey(Tail(sorted_part), x)

\* line 1689: sorted(toolgroups_by_id.values(), key=ToolGroupKey), over the
\* <<key, group>> records
RECURSIVE SortedByKey(_, _)
SortedByKey(done, rest) ==
  IF rest = <<>> THEN done
  ELSE SortedByKey(InsertByKey(done, Head(rest)), Tail(rest))

\* the key of every value, in the order of the dict
Keyed(by_id) ==
  [n \in 1..Len(by_id) |->
     [b |-> by_id[n][2], key |-> ToolGroupKey(by_id, by_id[n][2]).key,
      err |-> ToolGroupKey(by_id, by_id[n][2]).err]]

\* the exception of the first key that raises, "" when none does
RECURSIVE FirstErr(_)
FirstErr(keyed) ==
  IF keyed = <<>> THEN ""
  ELSE IF Head(keyed).err # "" THEN Head(keyed).err
  ELSE FirstErr(Tail(keyed))

InitTool ==
  /\ \E len \in 1..MaxGroups :
       \E lo \in [1..len -> LayoutOrders], ps \in [1..len -> ParentIdLists(len)] :
         toolgroups_by_id = ToolGroupsById(<<>>, ToolGroupList(len, lo, ps))
  /\ toolgroups = <<>>
  /\ tg_raised = ""
  /\ InitLoadIdle
  /\ InitFoldIdle
  /\ InitAliasIdle
  /\ InitGroupIdle
  /\ InitMoreIdle

\* line 1689: toolgroups = {tg[...]['Id'].lower(): tg for tg in sorted(...)}
SortToolGroups ==
  /\ toolgroups = <<>>
  /\ tg_raised = ""
  /\ LET keyed == Keyed(toolgroups_by_id)
         sorted_all == SortedByKey(<<>>, keyed)
     IN /\ tg_raised' = FirstErr(keyed)
        /\ toolgroups' =
             IF FirstErr(keyed) # "" THEN <<>>
             ELSE << ToolGroupsById(
                       <<>>, [n \in 1..Len(sorted_all) |-> sorted_all[n].b]) >>
  /\ UNCHANGED <<toolgroups_by_id, loadVars, foldVars, aliasVars, groupVars,
                 moreVars>>

NextTool == SortToolGroups

SpecTool == InitTool /\ [][NextTool]_vars

----------------------------------------------------------------------------
(* load_templates_and_tools, lines 593-627: one batch of template paths is
   loaded by map(load_template, ...) and collected into templates[key].  The
   same batch is run twice, once with debug (builtins.map) and once without
   (ProcessPoolExecutor().map), so that the two runs can be compared. *)

TemplatePaths == {"Log", "LOG", "Plank", "Missing"}

\* lines 578-590: load_template finds no declaration for the path "Missing"
\* and fails the assertion of line 589; otherwise the Id is the path's stem
LoadedTemplate(file_path) ==
  IF file_path = "Missing"
  THEN [template |-> <<>>, err |-> "AssertionError"]
  ELSE [template |-> <<[Id |-> file_path]>>, err |-> ""]

InitPool ==
  /\ faction_templates \in UNION {[1..len -> TemplatePaths] : len \in 0..MaxPaths}
  /\ templates = [debug \in BOOLEAN |-> <<>>]
  /\ consumed = [debug \in BOOLEAN |-> 0]
  /\ finished = {}
  /\ lt_raised = [debug \in BOOLEAN |-> ""]
  /\ lt_pc = [debug \in BOOLEAN |-> "call"]
  /\ InitLoadIdle
  /\ InitFoldIdle
  /\ InitAliasIdle
  /\ InitGroupIdle
  /\ InitToolIdle
  /\ InitResolveIdle
  /\ InitShareIdle

\* lines 598, 606 and 620: map(load_template, *zip(*(...))).  zip(*()) of an
\* empty batch gives no iterables: builtins.map(load_template) raises
\* TypeError, Executor.map(load_template) submits nothing
CallMap(debug) ==
  /\ lt_pc[debug] = "call"
  /\ IF debug /\ faction_templates = <<>>
     THEN /\ lt_raised' = [lt_raised EXCEPT ![debug] = "TypeError"]
          /\ lt_pc' = [lt_pc EXCEPT ![debug] = "done"]
     ELSE /\ lt_pc' = [lt_pc EXCEPT ![debug] = "loop"]
          /\ UNCHANGED lt_raised
  /\ UNCHANGED <<faction_templates, templates, consumed, finished,
                 oldVars, resolveVars, shareVars>>

\* a worker of the pool finishes the call it was given, in any order
WorkerDone(n) ==
  /\ lt_pc[FALSE] = "loop"
  /\ n \in 1..Len(faction_templates)
  /\ n \notin finished
  /\ finished' = finished \cup {n}
  /\ UNCHANGED <<faction_templates, templates, consumed, lt_raised, lt_pc,
                 oldVars, resolveVars, shareVars>>

\* builtins.map computes the next call when asked; Executor.map yields the
\* results in the order of the calls, waiting for the next one to finish
NextResult(debug, n) ==
  /\ n = consumed[debug] + 1
  /\ debug \/ n \in finished

\* lines 606-608 and 620-625: one turn of the loop over the results
Collect(debug) ==
  /\ lt_pc[debug] = "loop"
  /\ \E n \in 1..Len(faction_templates) :
       /\ NextResult(debug, n)
       /\ LET r == LoadedTemplate(faction_templates[n])
          IN IF r.err # ""
             THEN /\ lt_raised' = [lt_raised EXCEPT ![debug] = r.err]
                  /\ lt_pc' = [lt_pc EXCEPT ![debug] = "done"]
                  /\ UNCHANGED <<templates, consumed>>
             ELSE IF DictHas(templates[debug], Lower(r.template[1].Id))
             THEN /\ lt_raised' = [lt_raised EXCEPT ![debug] = "AssertionError"]
                  /\ lt_pc' = [lt_pc EXCEPT ![debug] = "done"]
                  /\ UNCHANGED <<templates, consumed>>
             ELSE /\ templates' =
                       [templates EXCEPT ![debug] =
                          DictSet(@, Lower(r.template[1].Id), r.template[1])]
                  /\ consumed' = [consumed EXCEPT ![debug] = @ + 1]
                  /\ UNCHANGED <<lt_raised, lt_pc>>
  /\ UNCHANGED <<faction_templates, finished,
                 oldVars, resolveVars, shareVars>>

\* the loop ends when the results are exhausted
EndLoop(debug) ==
  /\ lt_pc[debug] = "loop"
  /\ consumed[debug] = Len(faction_templates)
  /\ lt_pc' = [lt_pc EXCEPT ![debug] = "done"]
  /\ UNCHANGED <<faction_templates, templates, consumed, finished, lt_raised,
                 oldVars, resolveVars, shareVars>>

NextPool ==
  \/ \E debug \in BOOLEAN : CallMap(debug)
  \/ \E n \in 1..MaxPaths : WorkerDone(n)
  \/ \E debug \in BOOLEAN : Collect(debug)
  \/ \E debug \in BOOLEAN : EndLoop(debug)

SpecPool == InitPool /\ [][NextPool]_vars

----------------------------------------------------------------------------
(* The resolution of one serialized document: the root's attached components
   are popped out of the auxiliary pool and their property maps are walked;
   a local-anchor reference is dereferenced into the pool, the entry's own
   property map is resolved recursively in place, and the anchor is removed
   from the pool afterwards.  The recursion is the host's, so its depth is
   limited.  Only the references of an entry matter here: the other keys
   and values of a property map pass through. *)

Anchors == 1..MaxAnchors

RefLists(len) == UNION {[1..n -> Anchors] : n \in 0..len}

Frame(anchor, component) ==
  [anchor |-> anchor, todo |-> document.refs[anchor], component |-> component]

InitResolve ==
  /\ \E cs \in RefLists(2), rs \in [Anchors -> RefLists(2)] :
       document = [components |-> cs, refs |-> rs]
  /\ aux_pool = Anchors
  /\ resolving = <<>>
  /\ derefs = [a \in Anchors |-> 0]
  /\ rs_raised = ""
  /\ rs_pc = "components"
  /\ InitLoadIdle
  /\ InitFoldIdle
  /\ InitAliasIdle
  /\ InitGroupIdle
  /\ InitToolIdle
  /\ InitPoolIdle
  /\ InitShareIdle

\* step 1: the next attached component is popped out of the pool and its
\* property map is walked; a component no longer in the pool is passed over
PopComponent ==
  /\ rs_pc = "components"
  /\ resolving = <<>>
  /\ document.components # <<>>
  /\ LET c == Head(document.components)
     IN /\ document' = [document EXCEPT !.components = Tail(@)]
        /\ IF c \in aux_pool
           THEN /\ aux_pool' = aux_pool \ {c}
                /\ resolving' = <<Frame(c, TRUE)>>
           ELSE UNCHANGED <<aux_pool, resolving>>
  /\ UNCHANGED <<derefs, rs_raised, rs_pc, oldVars, poolVars, shareVars>>

\* step 4: the next reference of the property map being walked.  An anchor
\* found in the pool is dereferenced: its own property map is resolved by a
\* recursive call; an anchor not in the pool is left as the pointer it was
Dereference ==
  /\ rs_pc = "components"
  /\ resolving # <<>>
  /\ resolving[Len(resolving)].todo # <<>>
  /\ LET top == Len(resolving)
         r == Head(resolving[top].todo)
         rest == [resolving EXCEPT ![top].todo = Tail(@)]
     IN IF r \notin aux_pool
        THEN /\ resolving' = rest
             /\ UNCHANGED <<derefs, rs_raised, rs_pc>>
        ELSE IF Len(resolving) >= MaxDepth
        THEN /\ rs_raised' = "RecursionError"
             /\ rs_pc' = "done"
             /\ derefs' = [derefs EXCEPT ![r] = @ + 1]
             /\ UNCHANGED resolving
        ELSE /\ resolving' = Append(rest, Frame(r, FALSE))
             /\ derefs' = [derefs EXCEPT ![r] = @ + 1]
             /\ UNCHANGED <<rs_raised, rs_pc>>
  /\ UNCHANGED <<document, aux_pool, oldVars, poolVars, shareVars>>

\* step 4: the dereferenced anchor is removed from the pool after its
\* property map was resolved
RemoveAfterwards(pool, frame) ==
  IF frame.component THEN pool ELSE pool \ {frame.anchor}

\* the walk of a property map ends: the recursive call returns
Resolved ==
  /\ rs_pc = "components"
  /\ resolving # <<>>
  /\ resolving[Len(resolving)].todo = <<>>
  /\ aux_pool' = RemoveAfterwards(aux_pool, resolving[Len(resolving)])
  /\ resolving' = SubSeq(resolving, 1, Len(resolving) - 1)
  /\ UNCHANGED <<document, derefs, rs_raised, rs_pc, oldVars, poolVars,
                 shareVars>>

\* the root has no attached component left
EndDocument ==
  /\ rs_pc = "components"
  /\ resolving = <<>>
  /\ document.components = <<>>
  /\ rs_pc' = "done"
  /\ UNCHANGED <<document, aux_pool, resolving, derefs, rs_raised, oldVars,
                 poolVars, shareVars>>

NextResolve == PopComponent \/ Dereference \/ Resolved \/ EndDocument

SpecResolve == InitResolve /\ [][NextResolve]_vars

----------------------------------------------------------------------------
(* main, line 1674: the Definitions load_blueprints returned for the goods,
   one per slug, are keyed on the lower-cased Id of their payload.  Nothing
   makes the Id of a payload differ from the Id of another slug's payload. *)

LoadedGoods ==
  {GoodBlueprint(id, ids) : id \in {"Log", "LOG", "Plank"},
                            ids \in {<<>>, <<"Wood">>}}

InitRekey ==
  /\ \E len \in 0..MaxGoods :
       \E bs \in [1..len -> LoadedGoods] : returned = <<bs>>
  /\ all_paths = <<>>
  /\ all_specs = <<>>
  /\ merged_specs = <<>>
  /\ todo = <<>>
  /\ pc = "done"
  /\ folded = <<>>
  /\ skipped = {}
  /\ error = NoErr
  /\ template = <<>>
  /\ InitFoldIdle
  /\ InitAliasIdle
  /\ InitGroupIdle
  /\ InitToolIdle
  /\ InitMoreIdle

\* line 1674: goods = {b['GoodSpec']['Id'].lower(): b for b in ...}
Rekey ==
  /\ goods = <<>>
  /\ goods' = ById(<<>>, returned[1])
  /\ goods0' = goods'
  /\ UNCHANGED <<calls, loadVars, foldVars, groupVars, toolVars, moreVars>>

NextRekey == Rekey

SpecRekey == InitRekey /\ [][NextRekey]_vars

----------------------------------------------------------------------------
(* The declarations of a run, as the properties below see them *)

Paths == 1..Len(all_paths)
\* the name, flag and source index of the declaration read from all_paths[n]
NameOf(n) == SpecName(RawName(all_paths[n].stem))
OptionalOf(n) == PartialBlueprint(n, all_paths).optional
SourceOf(n) == all_paths[n].i
\* the declaration read from all_paths[n] was folded before position b of folded
FoldedBefore(n, b) == \E a \in 1..(b - 1) : folded[a] = n
WasFolded(n) == FoldedBefore(n, Len(folded) + 1)
HasBase(name) == \E n \in Paths : NameOf(n) = name /\ ~OptionalOf(n)

\* lines 552-559 for one name and a list of its declarations given in the
\* order perm
RECURSIVE MergeList(_, _, _)
MergeList(name, l, merged) ==
  IF l = <<>> THEN [merged |-> merged, err |-> NoErr]
  ELSE IF SkipOptional(Head(l), name, merged)
    THEN MergeList(name, Tail(l), merged)
  ELSE LET r == merge_into_spec(<<name>>, SetDefault(merged, name),
                                Head(l).specification)
       IN IF r.err # NoErr
          THEN [merged |-> DictSet(merged, name, r.spec), err |-> r.err]
          ELSE MergeList(name, Tail(l), DictSet(merged, name, r.spec))

Orders(len) ==
  {f \in [1..len -> 1..len] : \A a, b \in 1..len : f[a] = f[b] => a = b}

----------------------------------------------------------------------------
(* C1 *)

\* C1 (as claimed): the Definition merged for a name is the one the merge
\* yields for the same declarations of that name presented in any other
\* order.
C1_MergeDeterminism ==
  pc = "done" =>
    \A e \in 1..Len(all_specs) :
      LET name == all_specs[e][1]
          l == all_specs[e][2]
      IN \A f \in Orders(Len(l)) :
           LET run == MergeList(name,
                                SortedByOptional([n \in 1..Len(l) |-> l[f[n]]]),
                                <<>>)
           IN /\ run.err = NoErr
              /\ DictHas(run.merged, name) = DictHas(merged_specs, name)
              /\ DictGet(run.merged, name) = DictGet(merged_specs, name)

----------------------------------------------------------------------------
(* C2 *)

\* C2: when a declaration is folded, every non-optional declaration of its
\* name has been folded before it if it is optional, and so has every
\* declaration of its name with the same flag and a lower source index.
C2_FoldOrder ==
  \A b \in 1..Len(folded) :
    \A n \in Paths :
      (/\ NameOf(n) = NameOf(folded[b])
       /\ \/ OptionalOf(folded[b]) /\ ~OptionalOf(n)
          \/ /\ OptionalOf(folded[b]) = OptionalOf(n)
             /\ SourceOf(n) < SourceOf(folded[b]))
        => FoldedBefore(n, b)

\* an optional declaration of the base install arrived first and was folded
\* last, after the non-optional ones of the base install and of the mod
C2_Witness ==
  /\ pc = "done"
  /\ Len(all_paths) = 3
  /\ OptionalOf(1) /\ SourceOf(1) = 0
  /\ ~OptionalOf(2) /\ SourceOf(2) = 0
  /\ ~OptionalOf(3) /\ SourceOf(3) = 1
  /\ folded = <<2, 3, 1>>

----------------------------------------------------------------------------
(* C3 *)

\* C3: when the merge returns, a name has a Definition exactly when one of
\* its declarations is non-optional; the declarations of a name that has
\* none were all skipped and none was folded, and the declarations of a name
\* that has one were all folded, the optional ones included.
C3_OptionalWithoutBase ==
  pc = "done" =>
    /\ \A n \in Paths :
         /\ DictHas(merged_specs, NameOf(n)) = HasBase(NameOf(n))
         /\ IF HasBase(NameOf(n))
            THEN WasFolded(n) /\ n \notin skipped
            ELSE ~WasFolded(n) /\ n \in skipped
    /\ DictKeys(merged_specs) = {NameOf(n) : n \in {q \in Paths : ~OptionalOf(q)}}

\* one name has optional declarations only and gets no Definition, another
\* has a base and an optional declaration, both folded
C3_Witness ==
  /\ pc = "done"
  /\ \E n \in Paths : OptionalOf(n) /\ ~HasBase(NameOf(n)) /\ n \in skipped
                      /\ ~DictHas(merged_specs, NameOf(n))
  /\ \E n \in Paths : OptionalOf(n) /\ HasBase(NameOf(n)) /\ WasFolded(n)
                      /\ DictHas(merged_specs, NameOf(n))

----------------------------------------------------------------------------
(* The last fold, as the properties below see it *)

HasFold == Len(jsons) >= 1
\* the Definition before the last fold, and the document folded
Pre == specs[Len(specs) - 1]
Json == jsons[Len(jsons)]
\* the last fold was of a document with the single item key: value
OneItem == HasFold /\ Len(Json) = 1
LastKey == PartitionHead(Json[1][1])
LastVerb == PartitionTail(Json[1][1])
LastVal == Json[1][2]
\* what the field held before the last fold, and holds now
Old == DictGet(Pre, LastKey)
New == DictGet(spec, LastKey)

RECURSIVE Count(_, _)
Count(l, x) ==
  IF l = <<>> THEN 0
  ELSE (IF PyEq(Head(l), x) THEN 1 ELSE 0) + Count(Tail(l), x)

\* a is b with some elements left out, the others in b's order
RECURSIVE IsSubList(_, _)
IsSubList(a, b) ==
  IF a = <<>> THEN TRUE
  ELSE IF b = <<>> THEN FALSE
  ELSE IF Head(a) = Head(b) THEN IsSubList(Tail(a), Tail(b))
  ELSE IsSubList(a, Tail(b))

\* some item of json meets, in d or in a nested map of d, a field that holds
\* a value of another type (an int meeting a float excepted)
RECURSIVE TypeClash(_, _)
TypeClash(d, json) ==
  \E n \in 1..Len(json) :
    LET k == PartitionHead(json[n][1])
        v == json[n][2]
    IN /\ DictHas(d, k)
       /\ LET i == d[DictIdx(d, k)][2]
          IN \/ i.t # v.t /\ ~(i.t = "float" /\ v.t = "int")
             \/ i.t = "dict" /\ v.t = "dict" /\ TypeClash(i.d, v.d)

----------------------------------------------------------------------------
(* C4 *)

\* C4 (as claimed): a fold that meets a field, at any depth, holding a value
\* of another type than the incoming one aborts, for every pair of types
\* except a float met by an int.
C4_TypeMismatchFatal ==
  (OneItem /\ TypeClash(Pre, Json)) => err # NoErr

----------------------------------------------------------------------------
(* C5 *)

----------------------------------------------------------------------------
(* C6 *)

\* C6 (as claimed): folding a key 'field#verb' whose verb is neither append
\* nor remove aborts with a diagnostic naming the field, whatever the field
\* holds or whether it is there at all.
C6_UnsupportedVerbFatal ==
  (OneItem /\ LastVerb \notin {<<>>, <<"append">>, <<"remove">>})
    => /\ err.msg = "Unsupported mode"
       /\ err.k = LastKey

----------------------------------------------------------------------------
(* C7 *)

\* C7: a list folded without a patch verb into a field that holds a list
\* replaces it: the field is then exactly the incoming list and holds no
\* element that only the previous list had.
C7_ListOverride ==
  (OneItem /\ LastVerb = <<>> /\ LastVal.t = "list" /\ Old.t = "list")
    => /\ err = NoErr
       /\ New = LastVal
       /\ \A n \in 1..Len(Old.l) :
            ~ListIn(Old.l[n], LastVal.l) => ~ListIn(Old.l[n], New.l)

C7_Witness ==
  /\ OneItem /\ LastVerb = <<>> /\ LastVal.t = "list" /\ Old.t = "list"
  /\ \E n \in 1..Len(Old.l) : ~ListIn(Old.l[n], LastVal.l)
  /\ New = LastVal

----------------------------------------------------------------------------
(* C8 *)

\* the fold before the last one
HasTwoFolds == Len(jsons) >= 2
Pre2 == specs[Len(specs) - 2]
Json2 == jsons[Len(jsons) - 1]
\* the last two folds were of single items with the keys k2 then k1
TwoItems(k2, k1) ==
  /\ HasTwoFolds /\ Len(Json2) = 1 /\ Len(Json) = 1
  /\ Json2[1][1] = k2 /\ Json[1][1] = k1

\* C8: 'field#append': L folded into a field holding the list X leaves X
\* followed by L; two appends in a row leave X, then the first list, then
\* the second.
C8_AppendOrder ==
  /\ (OneItem /\ LastVerb = <<"append">> /\ LastVal.t = "list"
        /\ Old.t = "list")
       => /\ err = NoErr
          /\ New = ListV(Old.l \o LastVal.l)
  /\ (TwoItems(TagsAppend, TagsAppend) /\ Json2[1][2].t = "list"
        /\ LastVal.t = "list" /\ DictGet(Pre2, Tags).t = "list")
       => New = ListV(DictGet(Pre2, Tags).l \o Json2[1][2].l \o LastVal.l)

C8_Witness ==
  /\ TwoItems(TagsAppend, TagsAppend)
  /\ Json2[1][2] = StrList(<<"a">>) /\ LastVal = StrList(<<"b">>)
  /\ DictGet(Pre2, Tags) = StrList(<<"a", "b">>)
  /\ New = StrList(<<"a", "b", "a", "b">>)

----------------------------------------------------------------------------
(* C9 *)

Disjoint(l, x) == \A n \in 1..Len(l) : ~ListIn(l[n], x)

\* C9: for a field holding the list X and a list L with no element in X,
\* 'field#append': L and then 'field#remove': L, folded from two documents
\* or from one, leave the field equal to X, same elements, same order.
C9_RemoveInvertsAppend ==
  /\ (TwoItems(TagsAppend, TagsRemove) /\ Json2[1][2] = LastVal
        /\ LastVal.t = "list" /\ DictGet(Pre2, Tags).t = "list"
        /\ Disjoint(LastVal.l, DictGet(Pre2, Tags).l))
       => /\ err = NoErr
          /\ New = DictGet(Pre2, Tags)
  /\ (HasFold /\ Len(Json) = 2 /\ Json[1][1] = TagsAppend
        /\ Json[2][1] = TagsRemove /\ Json[1][2] = Json[2][2]
        /\ Json[1][2].t = "list" /\ Old.t = "list"
        /\ Disjoint(Json[1][2].l, Old.l))
       => /\ err = NoErr
          /\ New = Old

C9_Witness ==
  /\ TwoItems(TagsAppend, TagsRemove)
  /\ Json2[1][2] = StrList(<<"b">>) /\ LastVal = StrList(<<"b">>)
  /\ DictGet(Pre2, Tags) = StrList(<<"a">>)
  /\ New = StrList(<<"a">>)

----------------------------------------------------------------------------
(* C10 *)

\* the last document starts with 'field#remove': L, L naming an element that
\* the list in the field does not hold
RemoveOfAbsent ==
  /\ HasFold /\ LastVerb = <<"remove">> /\ LastVal.t = "list"
  /\ Old.t = "list"
  /\ \E n \in 1..Len(LastVal.l) : ~ListIn(LastVal.l[n], Old.l)

\* C10: 'field#remove' of an element the list does not hold does not abort:
\* the list keeps its elements but those the remove list names and the list
\* holds, each of which goes once, and a plain field after it in the same
\* document is folded.
C10_RemoveAbsentRecoverable ==
  /\ (RemoveOfAbsent /\ Len(Json) = 1)
       => /\ err = NoErr
          /\ New.t = "list"
          /\ IsSubList(New.l, Old.l)
          /\ \A n \in 1..Len(Old.l) :
               Count(New.l, Old.l[n]) =
                 IF Count(Old.l, Old.l[n]) > Count(LastVal.l, Old.l[n])
                 THEN Count(Old.l, Old.l[n]) - Count(LastVal.l, Old.l[n])
                 ELSE 0
  /\ (RemoveOfAbsent /\ Len(Json) = 2 /\ Json[2][1] = KeyN
        /\ DictGet(Pre, KeyN) = NoneV)
       => /\ err = NoErr
          /\ DictGet(spec, KeyN) = Json[2][2]

C10_Witness ==
  /\ RemoveOfAbsent /\ Len(Json) = 2 /\ Json[2][1] = KeyN
  /\ LastVal = StrList(<<"c", "a">>) /\ Old = StrList(<<"a", "b">>)
  /\ New = StrList(<<"b">>)
  /\ DictGet(spec, KeyN) = IntV(1)

----------------------------------------------------------------------------
(* C11 *)

\* the three declarations of the example: the base of the base install, the
\* overlay of the mod, and the optional overlay
IsSawmillExample ==
  /\ Len(all_paths) = 3
  /\ \E b, o1, o2 \in Paths :
       /\ all_paths[b] = [i |-> 0, stem |-> TemplateStem, doc |-> SawmillBase]
       /\ all_paths[o1] =
            [i |-> 1, stem |-> TemplateStem, doc |-> SawmillOverlay1]
       /\ all_paths[o2].doc = SawmillOverlay2
       /\ OptionalOf(o2)

SawmillMerged == << <<BuildingCost, ListV(<<>>)>>, <<ScienceCost, IntV(10)>> >>

\* some declaration folded into the n-th returned Definition holds an Id
PayloadHasId(n) ==
  \E m \in Paths :
    /\ WasFolded(m)
    /\ NameOf(m) = merged_specs[n][1]
    /\ DictHas(all_paths[m].doc, Id)

----------------------------------------------------------------------------
(* C12 *)

\* the declarations of a name, in the order of all_paths
RECURSIVE DeclsOf(_, _)
DeclsOf(name, n) ==
  IF n > Len(all_paths) THEN <<>>
  ELSE IF NameOf(n) = name
    THEN <<PartialBlueprint(n, all_paths)>> \o DeclsOf(name, n + 1)
  ELSE DeclsOf(name, n + 1)

\* every item of every declaration in l folds into the Definition reached so
\* far without an exception, and the last Definition is merged
RECURSIVE FoldsCompletely(_, _, _)
FoldsCompletely(l, d, merged) ==
  IF l = <<>> THEN d = merged
  ELSE LET r == merge_into_spec(<<>>, d, Head(l).specification)
       IN r.err.msg = "" /\ FoldsCompletely(Tail(l), r.spec, merged)

\* C12: when a fold raises, load_blueprint_jsons returns nothing, whatever
\* merged_specs holds by then; a list is returned only when no fold raised,
\* and each Definition in it is the complete fold of all the declarations of
\* its name, the non-optional ones first.
C12_NoPartialDefinition ==
  /\ pc = "failed" => returned = <<>>
  /\ error # NoErr => returned = <<>>
  /\ returned # <<>> =>
       /\ Len(returned[1]) = Len(merged_specs)
       /\ \A n \in 1..Len(returned[1]) :
            LET name == merged_specs[n][1]
                l == DeclsOf(name, 1)
            IN /\ \A m \in Paths : NameOf(m) = name => WasFolded(m)
               /\ FoldsCompletely(
                    SelectSeq(l, IsBase) \o SelectSeq(l, IsOptional),
                    <<>>, returned[1][n])

\* the second declaration of foo raised after its first field was folded: the
\* Definition of foo holds n without the declaration's tags, the Definition
\* of bar is complete, and nothing is returned
C12_Witness ==
  /\ pc = "failed"
  /\ error.msg # ""
  /\ returned = <<>>
  /\ Len(folded) = 3
  /\ NameOf(folded[3]) = NameOf(folded[2])
  /\ NameOf(folded[1]) # NameOf(folded[2])
  /\ all_paths[folded[3]].doc = << <<KeyN, IntV(1)>>, <<Tags, StrV("a")>> >>
  /\ \E n \in 1..Len(merged_specs) :
       /\ merged_specs[n][1] = NameOf(folded[3])
       /\ DictGet(merged_specs[n][2], KeyN) = IntV(1)
       /\ DictGet(merged_specs[n][2], Tags) # StrV("a")

----------------------------------------------------------------------------
(* C13 *)

\* the blueprint declares a backward-compatible id that lower-cases to key k
Declares(blueprint, k) ==
  \E n \in 1..Len(blueprint) :
    \E i \in 1..Len(blueprint[n][2].BackwardCompatibleIds) :
      Lower(blueprint[n][2].BackwardCompatibleIds[i]) = k

\* what table t maps key k to
Target(t, k) == t[DictIdx(t, k)][2]

\* C13: every key the table had before add_backward_compatible_keys ran is
\* in the table afterwards and maps to the same Definition, also when another
\* Definition declares a backward-compatible id that lower-cases to that key.
C13_AliasNonDestructive ==
  \A k \in DictKeys(goods0) :
    /\ DictHas(goods, k)
    /\ Target(goods, k) = Target(goods0, k)

\* Plank declares the backward-compatible id LOG, which lower-cases to the
\* key of Log; after the call log still maps to Log
C13_Witness ==
  /\ calls = 1
  /\ \E k \in DictKeys(goods0) :
       /\ Lower(Target(goods0, k)[1][2].Id) = k
       /\ \E j \in DictKeys(goods0) :
            /\ j # k
            /\ Declares(Target(goods0, j), k)
            /\ ~Declares(Target(goods0, k), k)
       /\ Target(goods, k) = Target(goods0, k)

----------------------------------------------------------------------------
(* C14 *)

\* C14: add_backward_compatible_keys removes no key and moves none, and
\* every value of the table afterwards is, unchanged, one of the Definitions
\* the table held before: the table before is the head of the table after.
C14_AliasOnlyAdds ==
  /\ Len(goods) >= Len(goods0)
  /\ SubSeq(goods, 1, Len(goods0)) = goods0
  /\ \A n \in 1..Len(goods) :
       \E m \in 1..Len(goods0) : goods[n][2] = goods0[m][2]

\* two keys were added
C14_Witness ==
  /\ calls = 1
  /\ Len(goods) >= Len(goods0) + 2
  /\ \A n \in (Len(goods0) + 1)..Len(goods) : ~DictHas(goods0, goods[n][1])

----------------------------------------------------------------------------
(* C15 *)

\* the first position of the table whose Definition declares k
FirstDeclaring(t, k) ==
  CHOOSE m \in 1..Len(t) :
    /\ Declares(t[m][2], k)
    /\ \A a \in 1..(m - 1) : ~Declares(t[a][2], k)

\* the key is an alias: it is not the lower-cased Id of what it maps to
IsAlias(t, k) ==
  \A n \in 1..Len(Target(t, k)) : Lower(Target(t, k)[n][2].Id) # k

\* C15: a key that add_backward_compatible_keys adds maps to the first
\* Definition, in the table's order, that declares it; an alias the table
\* already holds keeps its Definition in every later call.
C15_EarlierAliasWins ==
  /\ \A k \in DictKeys(goods) \ DictKeys(goods0) :
       /\ \E m \in 1..Len(goods0) : Declares(goods0[m][2], k)
       /\ Target(goods, k) = goods0[FirstDeclaring(goods0, k)][2]
  /\ \A k \in DictKeys(goods0) :
       IsAlias(goods0, k) => Target(goods, k) = Target(goods0, k)

\* two Definitions declare Wood, which is no key of the table: wood maps to
\* the first of them, and still does after the second call
C15_Witness ==
  /\ calls = 2
  /\ \E k \in DictKeys(goods0) :
       /\ IsAlias(goods0, k)
       /\ \E a, b \in 1..Len(goods0) :
            /\ a < b
            /\ goods0[a][2] # goods0[b][2]
            /\ Declares(goods0[a][2], k)
            /\ Declares(goods0[b][2], k)
            /\ ~IsAlias(goods0, goods0[a][1])
            /\ ~IsAlias(goods0, goods0[b][1])
            /\ \A c \in 1..(a - 1) : ~Declares(goods0[c][2], k)
            /\ Target(goods, k) = goods0[a][2]

----------------------------------------------------------------------------
(* C16 *)

\* dict_group_by_id has returned
Grouped == groups # <<>>

\* how often the record is in list l
Times(record, l) == Cardinality({n \in 1..Len(l) : l[n] = record})

\* how often the record is in the bucket of key b; 0 without such a bucket
TimesIn(record, b) ==
  IF DictHas(groups[1], b)
  THEN Times(record, groups[1][DictIdx(groups[1], b)][2])
  ELSE 0

\* along the parts, the value is a dict that lacks the next part
RECURSIVE LacksPart(_, _)
LacksPart(v, parts) ==
  /\ parts # <<>>
  /\ v.t = "dict"
  /\ \/ ~DictHas(v.d, Head(parts))
     \/ LacksPart(v.d[DictIdx(v.d, Head(parts))][2], Tail(parts))

\* C16: when dict_group_by_id returns, a record that lacks a part of the key
\* is in the bucket of the empty string as often as it is in the iterable,
\* and in no other bucket.
C16_UngroupedBucket ==
  Grouped =>
    \A n \in 1..Len(iterable) :
      LacksPart(iterable[n], key_path) =>
        /\ TimesIn(iterable[n], "") = Times(iterable[n], iterable)
        /\ \A e \in 1..Len(groups[1]) :
             groups[1][e][1] # "" => TimesIn(iterable[n], groups[1][e][1]) = 0

\* a record without GroupId in its ToolSpec, one without ToolSpec and one
\* with the GroupId A were grouped by ToolSpec.GroupId
C16_Witness ==
  /\ Grouped
  /\ key_path = <<"ToolSpec", "GroupId">>
  /\ iterable = << ToolSpecOf(DictV(<<>>)), ToolSpecOf(GroupIdOf(StrV("A"))),
                   GroupIdOf(StrV("b")) >>
  /\ groups[1] = << <<"", <<iterable[1], iterable[3]>> >>,
                    <<"a", <<iterable[2]>> >> >>

----------------------------------------------------------------------------
(* C17 *)

\* <<the value at the end of the parts>>, <<>> when a part is missing
RECURSIVE Terminal(_, _)
Terminal(v, parts) ==
  IF parts = <<>> THEN <<v>>
  ELSE IF v.t = "dict" /\ DictHas(v.d, Head(parts))
    THEN Terminal(v.d[DictIdx(v.d, Head(parts))][2], Tail(parts))
  ELSE <<>>

HasListAtKey(v) ==
  /\ Terminal(v, key_path) # <<>>
  /\ Terminal(v, key_path)[1].t = "list"

\* C17: when dict_group_by_id returns, a record whose value at the key is a
\* list is in the bucket of b exactly when b is the lower-cased form of an
\* element of the list.
C17_GroupFanOut ==
  Grouped =>
    \A n \in 1..Len(iterable) :
      HasListAtKey(iterable[n]) =>
        LET items == Terminal(iterable[n], key_path)[1].l
            lowered == {Lower(items[i].s) : i \in 1..Len(items)}
        IN /\ \A b \in lowered : TimesIn(iterable[n], b) > 0
           /\ \A e \in 1..Len(groups[1]) :
                TimesIn(iterable[n], groups[1][e][1]) > 0
                  => groups[1][e][1] \in lowered

\* the record with the list ["a", "B"] is in the buckets a and b and not in
\* the bucket of the empty string
C17_Witness ==
  /\ Grouped
  /\ key_path = <<"ToolSpec", "GroupId">>
  /\ iterable = << ToolSpecOf(GroupIdOf(StrList(<<"a", "B">>))), DictV(<<>>) >>
  /\ groups[1] = << <<"a", <<iterable[1]>> >>, <<"b", <<iterable[1]>> >>,
                    <<"", <<iterable[2]>> >> >>

----------------------------------------------------------------------------
(* C18 *)

\* along the parts, a part is present and holds null
RECURSIVE HoldsNull(_, _)
HoldsNull(v, parts) ==
  /\ parts # <<>>
  /\ v.t = "dict"
  /\ DictHas(v.d, Head(parts))
  /\ LET w == v.d[DictIdx(v.d, Head(parts))][2]
     IN w = NoneV \/ HoldsNull(w, Tail(parts))

\* C18 (as claimed): a call of dict_group_by_id on records of which one
\* holds null at a part of the key does not raise; that record is in no
\* bucket, and every other record is in a bucket.
C18_NullGroupSkipped ==
  ((Grouped \/ raised # "")
     /\ \E n \in 1..Len(iterable) : HoldsNull(iterable[n], key_path)) =>
    /\ raised = ""
    /\ Grouped
    /\ \A n \in 1..Len(iterable) :
         LET held == \E e \in 1..Len(groups[1]) :
                       TimesIn(iterable[n], groups[1][e][1]) > 0
         IN IF HoldsNull(iterable[n], key_path) THEN ~held
            ELSE held \/ HasListAtKey(iterable[n])

----------------------------------------------------------------------------
(* C19 *)

\* the sort has returned
Sorted == toolgroups # <<>>

HasParent(g) == g.ParentIds # <<>>
ParentOf(g) ==
  toolgroups_by_id[DictIdx(toolgroups_by_id, Lower(g.ParentIds[1]))][2]

\* a is the parent of g, or the parent of its parent, and so on
RECURSIVE IsAncestor(_, _, _)
IsAncestor(a, g, fuel) ==
  /\ fuel > 0
  /\ HasParent(g)
  /\ \/ ParentOf(g) = a
     \/ IsAncestor(a, ParentOf(g), fuel - 1)

\* the positions of the sorted tool groups that hold a descendant of the
\* group at position i
DescendantsAt(i) ==
  {n \in 1..Len(toolgroups[1]) :
     IsAncestor(toolgroups[1][i][2], toolgroups[1][n][2],
                Len(toolgroups_by_id))}

\* C19 (as claimed): in the sorted tool groups, the descendants of every
\* group are the groups that follow it immediately, as many as it has
\* descendants.
C19_PreOrder ==
  Sorted =>
    \A i \in 1..Len(toolgroups[1]) :
      DescendantsAt(i) = (i + 1)..(i + Cardinality(DescendantsAt(i)))

----------------------------------------------------------------------------
(* C20 *)

IsProperPrefix(a, b) == Len(a) < Len(b) /\ SubSeq(b, 1, Len(a)) = a

\* C20: when the sort returns, the key of the parent of every group with a
\* parent is a proper prefix of the group's key and is less than it in
\* Python's tuple order.
C20_KeyMonotonic ==
  Sorted =>
    \A n \in 1..Len(toolgroups_by_id) :
      LET g == toolgroups_by_id[n][2]
      IN HasParent(g) =>
           LET kg == ToolGroupKey(toolgroups_by_id, g).key
               kp == ToolGroupKey(toolgroups_by_id, ParentOf(g)).key
           IN /\ IsProperPrefix(kp, kg)
              /\ TupleLess(kp, kg)
              /\ ~TupleLess(kg, kp)

\* A under B under C, declared in that order, with the lower Order in B than
\* in C: the keys grow from C to B to A, and the sort gives C, B, A
C20_Witness ==
  /\ Sorted
  /\ Len(toolgroups_by_id) = 3
  /\ toolgroups_by_id[1][2].ParentIds = <<"B">>
  /\ toolgroups_by_id[2][2].ParentIds = <<"C">>
  /\ toolgroups_by_id[3][2].ParentIds = <<>>
  /\ toolgroups_by_id[2][2].Order < toolgroups_by_id[3][2].Order
  /\ toolgroups_by_id[2][2].Layout = toolgroups_by_id[3][2].Layout
  /\ [n \in 1..3 |-> toolgroups[1][n][1]] = <<"c", "b", "a">>

----------------------------------------------------------------------------
(* C21 *)

\* the sort has returned or raised
SortEnded == Sorted \/ tg_raised # ""

\* the parent id of the group names no group of the table
ParentMissing(g) ==
  HasParent(g) /\ ~DictHas(toolgroups_by_id, Lower(g.ParentIds[1]))

\* C21: when a tool group names a parent that is no key of toolgroups_by_id,
\* the key of that group is an exception and not a key, the sort raises and
\* no sorted tool groups exist; the exception is KeyError when the group is
\* the first of the table.
C21_MissingParentFatal ==
  (SortEnded /\ \E n \in 1..Len(toolgroups_by_id) :
                  ParentMissing(toolgroups_by_id[n][2])) =>
    /\ ~Sorted
    /\ tg_raised # ""
    /\ ParentMissing(toolgroups_by_id[1][2]) => tg_raised = "KeyError"
    /\ \A n \in 1..Len(toolgroups_by_id) :
         ParentMissing(toolgroups_by_id[n][2]) =>
           ToolGroupKey(toolgroups_by_id, toolgroups_by_id[n][2]) =
             [key |-> <<>>, err |-> "KeyError"]

\* B names the parent Z, A and C are roots: the sort raised KeyError
C21_Witness ==
  /\ SortEnded
  /\ Len(toolgroups_by_id) = 3
  /\ toolgroups_by_id[1][2].ParentIds = <<>>
  /\ toolgroups_by_id[2][2].ParentIds = <<"Z">>
  /\ toolgroups_by_id[3][2].ParentIds = <<>>
  /\ tg_raised = "KeyError"
  /\ toolgroups = <<>>

----------------------------------------------------------------------------
(* C22 *)

\* the chain of parents that starts at g comes to the group of key k within
\* fuel steps
RECURSIVE ReachesKey(_, _, _)
ReachesKey(g, k, fuel) ==
  /\ fuel > 0
  /\ HasParent(g)
  /\ ~ParentMissing(g)
  /\ \/ Lower(g.ParentIds[1]) = k
     \/ ReachesKey(ParentOf(g), k, fuel - 1)

\* the group at position n of the table is on a cycle of parents
OnCycle(n) ==
  ReachesKey(toolgroups_by_id[n][2], toolgroups_by_id[n][1],
             Len(toolgroups_by_id))

\* C22: when the parents of tool groups form a cycle, the key of every group
\* on the cycle is RecursionError and not a key, the sort raises and no
\* sorted tool groups exist.
C22_CyclicParentFatal ==
  (SortEnded /\ \E n \in 1..Len(toolgroups_by_id) : OnCycle(n)) =>
    /\ ~Sorted
    /\ tg_raised \in {"RecursionError", "KeyError"}
    /\ OnCycle(1) => tg_raised = "RecursionError"
    /\ \A n \in 1..Len(toolgroups_by_id) :
         OnCycle(n) =>
           ToolGroupKey(toolgroups_by_id, toolgroups_by_id[n][2]) =
             [key |-> <<>>, err |-> "RecursionError"]

\* B and C name each other as parent and A is a root: the sort raised
\* RecursionError
C22_Witness ==
  /\ SortEnded
  /\ Len(toolgroups_by_id) = 3
  /\ toolgroups_by_id[1][2].ParentIds = <<>>
  /\ toolgroups_by_id[2][2].ParentIds = <<"C">>
  /\ toolgroups_by_id[3][2].ParentIds = <<"B">>
  /\ OnCycle(2)
  /\ tg_raised = "RecursionError"
  /\ toolgroups = <<>>

\* both runs of the batch have ended
BothDone == lt_pc[TRUE] = "done" /\ lt_pc[FALSE] = "done"

(* C23: load_templates_and_tools produces the same templates map, with the
   same keys, values and insertion order, and ends the same way, when
   load_template is mapped over the worker pool as when it is mapped
   sequentially in debug mode, whatever the order in which the workers
   finish. *)
C23_PoolAsDebug ==
  BothDone =>
    /\ templates[FALSE] = templates[TRUE]
    /\ lt_raised[FALSE] = lt_raised[TRUE]

(* C24: per-document resolution finishes for every document, one whose
   auxiliary entries refer to each other cyclically or to themselves
   included: no anchor is dereferenced twice and the recursion never
   exceeds the host's limit. *)
C24_ResolutionTerminates ==
  /\ rs_raised = ""
  /\ \A a \in Anchors : derefs[a] <= 1

(* C25: the fold does not modify its inputs: after the folds the payload of
   every declaration, its lists and maps included, equals what it was when
   the declaration was given to merge_into_spec. *)
C25_InputsUnchanged == payloads = jsons

(* C26: folding 'field#remove': L never makes an element appear that was not
   there: afterwards the field is what it was, or a sub-list of the list it
   held, and a field that was absent before the fold is absent after it. *)
C26_RemoveNeverAdds ==
  (OneItem /\ LastVerb = <<"remove">> /\ LastVal.t = "list") =>
    IF DictHas(Pre, LastKey)
    THEN \/ New = Old
         \/ /\ Old.t = "list"
            /\ New.t = "list"
            /\ IsSubList(New.l, Old.l)
    ELSE ~DictHas(spec, LastKey)

(* C27: every Definition the merge returned for a kind is a value of the map
   main keys on the lower-cased Id of the payload: no two Definitions
   collapse into one entry. *)
C27_NoDefinitionLost ==
  (pc = "done" /\ goods # <<>>) =>
    /\ \A n \in 1..Len(returned[1]) :
         \E m \in 1..Len(goods) : goods[m][2] = returned[1][n]
    /\ Len(goods) = Len(returned[1])

(* C28: when dict_group_by_id returns, every record that holds no null on
   the key's path is in at least one bucket, and is in no bucket more often
   than it is in the iterable: grouping loses and duplicates nothing. *)
C28_NothingLostOrDuplicated ==
  Grouped =>
    \A n \in 1..Len(iterable) :
      ~HoldsNull(iterable[n], key_path) =>
        /\ \E e \in 1..Len(groups[1]) :
             TimesIn(iterable[n], groups[1][e][1]) > 0
        /\ \A e \in 1..Len(groups[1]) :
             TimesIn(iterable[n], groups[1][e][1])
               <= Times(iterable[n], iterable)

(* C29: a second run of add_backward_compatible_keys on the table the first
   run extended changes nothing: the keys, their order and the Definition of
   each key are the same after the second run as after the first. *)
C29_AliasIdempotent == calls >= 2 => goods = goods0

\* the first run added an alias and the second run left the table as it was
C29_Witness ==
  /\ calls = 2
  /\ goods = goods0
  /\ \E k \in DictKeys(goods0) : IsAlias(goods0, k)
  /\ \E n \in 1..Len(goods0) :
       Len(goods0[n][2][1][2].BackwardCompatibleIds) = 2

\* l without its first element equal to x; l itself when it has none
RECURSIVE WithoutFirst(_, _)
WithoutFirst(l, x) ==
  IF l = <<>> THEN <<>>
  ELSE IF PyEq(Head(l), x) THEN Tail(l)
  ELSE <<Head(l)>> \o WithoutFirst(Tail(l), x)

\* l after each element of v, in turn, took its first equal out of it
RECURSIVE WithoutEach(_, _)
WithoutEach(l, v) ==
  IF v = <<>> THEN l ELSE WithoutEach(WithoutFirst(l, Head(v)), Tail(v))

(* C30: folding 'field#remove': L onto a field that holds the list X takes
   out of X, for each element of L in turn, the first element of the current
   list equal to it, and nothing else; the other elements keep their order,
   and an element X holds twice and L names once is left once. *)
C30_RemoveOneOccurrence ==
  (OneItem /\ LastVerb = <<"remove">> /\ LastVal.t = "list"
     /\ Old.t = "list") =>
    /\ err = NoErr
    /\ New.t = "list"
    /\ New.l = WithoutEach(Old.l, LastVal.l)
    /\ IsSubList(New.l, Old.l)
    /\ \A n \in 1..Len(Old.l) :
         (Count(Old.l, Old.l[n]) = 2 /\ Count(LastVal.l, Old.l[n]) = 1)
           => Count(New.l, Old.l[n]) = 1

\* X = ["a", "b", "a"] and L = ["a"]: the first "a" went, ["b", "a"] is left
C30_Witness ==
  /\ OneItem /\ LastVerb = <<"remove">>
  /\ LastVal = StrList(<<"a">>)
  /\ Old = StrList(<<"a", "b", "a">>)
  /\ New = StrList(<<"b", "a">>)

====
